---- MODULE Spec2Model ----
(***************************************************************************)
(* A model of cuBNM's simulation-group layer (src/src/cuBNM/sim.py):       *)
(* SimGroup and its two variants rWWSimGroup (FIC) and rWWExSimGroup.      *)
(*                                                                         *)
(* Arrays are modelled by their shape and by a tag that says who wrote     *)
(* them; scalar settings whose value only matters through equality         *)
(* (duration, TR, paths, seed, ...) take the abstract values 0 (the value  *)
(* given to the constructor) and 1 (any other value).  Output attributes   *)
(* carry the number of the run that produced them.                         *)
(***************************************************************************)
EXTENDS Integers, Sequences, FiniteSets, TLC

\* ------------------------------------------------------------- bounds
\* largest batch size N the caller assigns
MaxN == 2
\* largest number of backend calls that return, per batch (caps self.it)
MaxIt == 2
\* largest number of distinct attributes the caller reassigns on one batch
MaxDiff == 1
\* number of nodes of the connectome (self.nodes)
Nodes == 2
\* number of representable firing rates per Hz just above the band edge
\* (the spacing of the floating-point numbers in [1, 2) is 1 / Quanta)
Quanta == 16

Batches == {"A", "B"}
Models == {"rWW", "rWWEx"}

VARIABLES
  model,        \* [b] class of the batch: model_name
  edited,       \* [b] the attributes the caller has reassigned so far
  attr,         \* [b] the configuration attributes of the batch object
  hasN,         \* [b] whether self._N was ever assigned
  N,            \* [b] self._N
  param_lists,  \* [b] self.param_lists: name -> array (or None)
  packed,       \* [b] self._global_params, self._regional_params
  last_N,       \* [b] self.last_N
  last_config,  \* [b] self.last_config
  it,           \* [b] self.it
  out,          \* [b] the output attributes of the batch object
  backend,      \* the process-wide persistent state of the compute backend
  call,         \* the backend call issued by the most recent operation
  ret,          \* [b] how the most recent operation on b ended
  succ,         \* [b] N and attributes at the most recent run whose
                \*     backend call returned (history, read by no operation)
  key_order,    \* [b] the order of the keys of the dict self.param_lists
  files,        \* the archives written so far: directory, name, writer
  derived       \* [b] what __init__ computed or loaded from its arguments:
                \*     duration_msec, TR_msec, sc, sc_dist, and whether
                \*     nodes > max_nodes_reg

vars == <<model, edited, attr, hasN, N, param_lists, packed, last_N,
          last_config, it, out, backend, call, ret, succ, key_order,
          files, derived>>

\* ------------------------------------------------------------- arrays
\* param_lists[k] = None
NoneArr == [shape |-> <<>>, val |-> "None"]
Arr(shape, val) == [shape |-> shape, val |-> val]
IsNone(a) == a.val = "None"
\* an array whose elements the caller gave
Given(shape, elems) == [shape |-> shape, val |-> "given", elems |-> elems]

RECURSIVE Prod(_)
Prod(s) == IF s = <<>> THEN 1 ELSE Head(s) * Prod(Tail(s))
\* ndarray.size
Size(a) == Prod(a.shape)

global_param_names(m) == <<"G">>
regional_param_names(m) ==
  IF m = "rWW" THEN <<"wEE", "wEI", "wIE">> ELSE <<"w", "I0", "sigma">>

Range(s) == {s[i] : i \in 1..Len(s)}
ParamNames(m) ==
  Range(global_param_names(m)) \cup Range(regional_param_names(m)) \cup {"v"}

\* SimGroup.__init__, line 207: the keys of param_lists as inserted.
DeclaredOrder(m) ==
  global_param_names(m) \o regional_param_names(m) \o <<"v">>

\* ------------------------------------------------------------ settings
DefaultGofTerms == {"+fc_corr", "-fc_diff", "-fcd_ks"}

\* SimGroup.__init__ / rWWSimGroup.__init__: the attributes after
\* construction with sc_dist_path = dist (0: None, 1: a path),
\* extended_output = ext and every other argument at the value "0".
BaseCtor(dist, ext) ==
  [duration |-> 0, TR |-> 0, sc_path |-> 0, sc_dist_path |-> dist,
   out_dir |-> 0, extended_output |-> ext, extended_output_ts |-> FALSE,
   window_size |-> 0, window_step |-> 0, rand_seed |-> 0,
   exc_interhemispheric |-> 0, force_cpu |-> 0,
   gof_terms |-> DefaultGofTerms, bw_params |-> 0, bold_remove_s |-> 0,
   fcd_drop_edges |-> 0, noise_segment_length |-> 0,
   do_delay |-> (dist = 1), sync_msec |-> (dist = 1)]

Ctor(m, dist, ext) ==
  IF m = "rWW"
  THEN [f \in DOMAIN BaseCtor(dist, ext)
            \cup {"do_fic", "max_fic_trials", "fic_penalty"} |->
          CASE f = "do_fic" -> TRUE
            [] f = "max_fic_trials" -> 0
            [] f = "fic_penalty" -> TRUE
            \* self.extended_output | self.do_fic, with do_fic = True
            [] f = "extended_output" -> TRUE
            [] OTHER -> BaseCtor(dist, ext)[f]]
  ELSE BaseCtor(dist, ext)

\* str(int(x)) of a bool, and of an attribute whose settings are 0, 1.
StrBool(x) == IF x THEN "1" ELSE "0"
StrInt(x) == IF x = 0 THEN "0" ELSE "1"

\* SimGroup._model_config and rWWSimGroup._model_config: the entries
\* computed from attributes of the model.
model_config(b) ==
  LET base == [exc_interhemispheric |-> StrInt(attr[b].exc_interhemispheric),
               sync_msec |-> StrBool(attr[b].sync_msec),
               bold_remove_s |-> StrInt(attr[b].bold_remove_s),
               drop_edges |-> StrInt(attr[b].fcd_drop_edges)]
  IN IF model[b] = "rWW"
     THEN [k \in DOMAIN base \cup {"do_fic", "max_fic_trials"} |->
             CASE k = "do_fic" -> StrBool(attr[b].do_fic)
               [] k = "max_fic_trials" -> StrInt(attr[b].max_fic_trials)
               [] OTHER -> base[k]]
     ELSE base

\* The keys get_config(for_reinit=True) returns.
ReinitKeysBase ==
  {"duration", "TR", "sc_path", "sc_dist_path", "extended_output",
   "extended_output_ts", "window_size", "window_step", "rand_seed",
   "exc_interhemispheric", "force_cpu", "bw_params", "bold_remove_s",
   "fcd_drop_edges", "noise_segment_length"}

\* A variant of ConfigKeys that forgets for_reinit.
ConfigKeysNoFlag(m, for_reinit) ==
  ReinitKeysBase \cup {"out_dir", "gof_terms"}
    \cup (IF m = "rWW" THEN {"do_fic", "max_fic_trials"} ELSE {})

\* SimGroup.get_config / rWWSimGroup.get_config: the keys of the record.
ConfigKeys(m, for_reinit) ==
  ReinitKeysBase
    \cup (IF for_reinit THEN {} ELSE {"out_dir", "gof_terms"})
    \cup (IF m = "rWW" THEN {"do_fic", "max_fic_trials"} ELSE {})

\* get_config applied to the attribute record a of a batch of class m
\* (include_N is not modelled: run never passes it).
ConfigOf(m, a, for_reinit) == [k \in ConfigKeys(m, for_reinit) |-> a[k]]

get_config(b, for_reinit) == ConfigOf(model[b], attr[b], for_reinit)

\* self.last_config as __init__ leaves it: SimGroup.__init__ takes the
\* snapshot before rWWSimGroup.__init__ ORs do_fic into extended_output.
CtorLastConfig(m, dist, ext) ==
  [ConfigOf(m, Ctor(m, dist, ext), TRUE) EXCEPT !.extended_output = ext]

\* --------------------------------------------------------- output state
\* an attribute that does not exist (hasattr is false)
Absent == [run |-> 0, n |-> 0]
\* an attribute produced by run number k of a batch of n simulations
Made(k, n) == [run |-> k, n |-> n]

NoOut ==
  [ext_out |-> Absent, sim_bold |-> Absent, sim_fc_trils |-> Absent,
   sim_fcd_trils |-> Absent, _sim_states |-> Absent,
   _global_bools |-> Absent, _global_ints |-> Absent,
   sim_states |-> Absent, sim_states_ts |-> FALSE,
   fic_unstable |-> Absent, fic_failed |-> Absent, fic_ntrials |-> Absent]

Stack(shape, vals) == [shape |-> shape, vals |-> vals]
NoPacked == [g |-> Stack(<<>>, <<>>), r |-> Stack(<<>>, <<>>)]

NoCall ==
  [made |-> FALSE, b |-> "A", force_reinit |-> FALSE, requested |-> FALSE,
   N |-> 0, cfg |-> <<>>, params |-> <<>>, prev_any |-> FALSE,
   n_changed |-> FALSE, changed |-> {}, model_config |-> <<>>,
   duration_msec |-> 0, TR_msec |-> 0, sc |-> NoneArr, sc_dist |-> NoneArr]

NoBackend == [initialized |-> FALSE, N |-> 0, cfg |-> <<>>, by |-> "A", bw |-> 0]

Ret(op, status) == [op |-> op, status |-> status, scores |-> <<>>]

\* ----------------------------------------------------------------- Init
\* The constructor arguments that are varied: the class, whether a
\* distance matrix is given, and the extended_output argument.
CtorArgs(ms, dists, exts) == [m : ms, dist : dists, ext : exts]

\* int(x * 1000) of a whole number of seconds.
Msec(x) == x * 1000

\* np.loadtxt(path): the (nodes, nodes) matrix stored in the file.
LoadTxt(path) == [shape |-> <<Nodes, Nodes>>, val |-> "file", path |-> path]

\* self.sc_dist after __init__: the distance file if a path was given,
\* else np.zeros_like(self.sc).
ScDist(sc_dist_path) ==
  IF sc_dist_path # 0 THEN LoadTxt(sc_dist_path)
  ELSE Arr(<<Nodes, Nodes>>, "zeros")

\* self.sync_msec after __init__: the last of its assignments, in the
\* order the constructor makes them.  With many nodes it is set True
\* (line 183); then the delay branch assigns do_delay, whose setter
\* copies it into sync_msec, and assigns sync_msec itself (191-205).
SyncMsecWrites(large, dist) ==
  (IF large THEN <<TRUE>> ELSE <<>>)
    \o (IF dist # 0 THEN <<TRUE, TRUE>> ELSE <<FALSE, FALSE>>)

SyncMsecAfterInit(large, dist) ==
  SyncMsecWrites(large, dist)[Len(SyncMsecWrites(large, dist))]

\* What __init__ derives from duration, TR, sc_path and sc_dist_path.
Derived(a, large) ==
  [duration_msec |-> Msec(a.duration), TR_msec |-> Msec(a.TR),
   sc |-> LoadTxt(a.sc_path), sc_dist |-> ScDist(a.sc_dist_path),
   large |-> large]

\* The state after every batch b was constructed with arguments from
\* args[b].
InitWithNodes(args, larges) ==
  \E a \in [Batches -> UNION {args[b] : b \in Batches}],
     large \in [Batches -> BOOLEAN] :
    /\ \A b \in Batches : a[b] \in args[b] /\ large[b] \in larges[b]
    /\ model = [b \in Batches |-> a[b].m]
    /\ edited = [b \in Batches |-> {}]
    /\ attr = [b \in Batches |->
                 [Ctor(a[b].m, a[b].dist, a[b].ext) EXCEPT
                    !["sync_msec"] = SyncMsecAfterInit(large[b], a[b].dist)]]
    /\ hasN = [b \in Batches |-> FALSE]
    /\ N = [b \in Batches |-> 0]
    /\ param_lists = [b \in Batches |-> [k \in ParamNames(a[b].m) |-> NoneArr]]
    /\ packed = [b \in Batches |-> NoPacked]
    /\ last_N = [b \in Batches |-> 0]
    /\ last_config =
         [b \in Batches |-> CtorLastConfig(a[b].m, a[b].dist, a[b].ext)]
    /\ it = [b \in Batches |-> 0]
    /\ out = [b \in Batches |-> NoOut]
    /\ backend = NoBackend
    /\ call = NoCall
    /\ ret = [b \in Batches |-> Ret("init", "ok")]
    /\ succ = [b \in Batches |->
                 [any |-> FALSE, N |-> 0,
                  attr |-> Ctor(a[b].m, a[b].dist, a[b].ext), count |-> 0]]
    /\ key_order = [b \in Batches |-> DeclaredOrder(a[b].m)]
    /\ files = {}
    /\ derived = [b \in Batches |->
                    Derived(Ctor(a[b].m, a[b].dist, a[b].ext), large[b])]

\* Batches whose connectome has at most max_nodes_reg nodes.
InitWith(args) == InitWithNodes(args, [b \in Batches |-> {FALSE}])

Init == InitWith([b \in Batches |-> CtorArgs(Models, {0, 1}, {TRUE, FALSE})])

\* ------------------------------------------------------ caller's edits
AllTerms == {"+fc_corr", "-fc_diff", "-fcd_ks", "-fc_normec", "-fic_penalty"}
BoolAttrs ==
  {"extended_output", "extended_output_ts", "do_delay", "sync_msec",
   "do_fic", "fic_penalty"}
AttrValues(f) ==
  IF f = "gof_terms" THEN SUBSET AllTerms
  ELSE IF f \in BoolAttrs THEN BOOLEAN
  ELSE {0, 1}

\* Everything an operation that makes no backend call leaves behind.
NoBackendCall == call' = NoCall /\ UNCHANGED <<backend>>
Returns(b, r) == ret' = [ret EXCEPT ![b] = r]
Fixed == UNCHANGED <<model, key_order, files, derived>>
NoEdit == UNCHANGED <<edited, attr>>

\* SimGroup.N.setter, rWWSimGroup.N.setter
NSetter(b, n) ==
  LET p1 == IF ~attr[b].do_delay
            THEN [param_lists[b] EXCEPT !["v"] = Arr(<<n>>, "zeros")]
            ELSE param_lists[b]
  IN IF model[b] = "rWW" /\ attr[b].do_fic
     THEN [p1 EXCEPT !["wIE"] = Arr(<<n, Nodes>>, "zeros")]
     ELSE p1

\* sim_group.N = n
SetN(b, n) ==
  /\ hasN' = [hasN EXCEPT ![b] = TRUE]
  /\ N' = [N EXCEPT ![b] = n]
  /\ param_lists' = [param_lists EXCEPT ![b] = NSetter(b, n)]
  /\ Returns(b, Ret("set", "ok"))
  /\ NoBackendCall /\ Fixed /\ NoEdit
  /\ UNCHANGED <<packed, last_N, last_config, it, out, succ>>

\* Attribute assignment sim_group.f = v.  do_delay and bw_params are
\* properties: the do_delay setter also assigns sync_msec, the bw_params
\* setter sends the constants k1..k3 to the backend (set_const).
AttrSetter(b, f, v) ==
  IF f = "do_delay"
  THEN [attr[b] EXCEPT !["do_delay"] = v, !["sync_msec"] = v]
  ELSE [attr[b] EXCEPT ![f] = v]

SetAttr(b, f, v) ==
  /\ f \in DOMAIN attr[b]
  /\ v # attr[b][f]
  /\ Cardinality(edited[b] \cup {f}) <= MaxDiff
  /\ edited' = [edited EXCEPT ![b] = @ \cup {f}]
  /\ attr' = [attr EXCEPT ![b] = AttrSetter(b, f, v)]
  /\ backend' = IF f = "bw_params" THEN [backend EXCEPT !.bw = v] ELSE backend
  /\ call' = NoCall
  /\ Returns(b, Ret("set", "ok"))
  /\ Fixed
  /\ UNCHANGED <<hasN, N, param_lists, packed, last_N, last_config, it, out,
                 succ>>

\* The arrays a caller may store for one parameter: one value per
\* simulation (n,), one per simulation and node (n, nodes), or the flat
\* (n*nodes,) of the class docstring's example.
UserArrays ==
  {Arr(s, "user") :
     s \in UNION {{<<n>>, <<n, Nodes>>, <<n * Nodes>>} : n \in 1..MaxN}}

\* sim_group.param_lists[p] = a
SetParam(b, p, a) ==
  /\ p \in DOMAIN param_lists[b]
  /\ param_lists' = [param_lists EXCEPT ![b][p] = a]
  /\ Returns(b, Ret("set", "ok"))
  /\ NoBackendCall /\ Fixed /\ NoEdit
  /\ UNCHANGED <<hasN, N, packed, last_N, last_config, it, out, succ>>

\* sim_group.param_lists = {k: sim_group.param_lists[k] for k in order}:
\* the same arrays in a dict whose keys were inserted in another order.
ReplaceParams(b, order) ==
  /\ Range(order) = DOMAIN param_lists[b]
  /\ Len(order) = Cardinality(DOMAIN param_lists[b])
  /\ key_order' = [key_order EXCEPT ![b] = order]
  /\ Returns(b, Ret("set", "ok"))
  /\ NoBackendCall /\ NoEdit
  /\ UNCHANGED <<model, files, derived, hasN, N, param_lists, packed, last_N,
                 last_config, it, out, succ>>

\* _set_default_params giving wIE its constant whatever do_fic is.
DefaultParamsFicToo(b) ==
  LET n == N[b]
  IN [k \in DOMAIN param_lists[b] |->
        CASE k = "v" ->
               IF attr[b].do_delay THEN Arr(<<n>>, "default")
               ELSE param_lists[b][k]
          [] k = "G" -> Arr(<<n>>, "default")
          [] OTHER -> Arr(<<n, Nodes>>, "default")]

\* SimGroup._set_default_params and its overrides, N assigned.
DefaultParams(b) ==
  LET n == N[b]
      m == model[b]
  IN [k \in DOMAIN param_lists[b] |->
        CASE k = "v" ->
               IF attr[b].do_delay THEN Arr(<<n>>, "default")
               ELSE param_lists[b][k]
          [] k = "G" -> Arr(<<n>>, "default")
          [] k = "wIE" ->
               IF ~attr[b].do_fic THEN Arr(<<n, Nodes>>, "default")
               ELSE param_lists[b][k]
          [] OTHER -> Arr(<<n, Nodes>>, "default")]

\* sim_group._set_default_params(); reading self.N before it was ever
\* assigned raises AttributeError before anything is stored.
SetDefaultParams(b) ==
  /\ IF hasN[b]
     THEN /\ param_lists' = [param_lists EXCEPT ![b] = DefaultParams(b)]
          /\ Returns(b, Ret("set_default_params", "ok"))
     ELSE /\ UNCHANGED param_lists
          /\ Returns(b, Ret("set_default_params", "AttributeError"))
  /\ NoBackendCall /\ Fixed /\ NoEdit
  /\ UNCHANGED <<hasN, N, packed, last_N, last_config, it, out, succ>>

\* ------------------------------------------------------------------ run
\* run, lines 347-352: the force_reinit handed to the backend, without
\* the comparison of N.
ForceReinitNoN(b, force_reinit, curr_config) ==
  force_reinit \/ (curr_config # last_config[b])

\* run, lines 347-352: the force_reinit handed to the backend.
ForceReinit(b, force_reinit, curr_config) ==
  \/ force_reinit
  \/ N[b] # last_N[b]
  \/ curr_config # last_config[b]

RECURSIVE Concat(_)
Concat(rows) == IF rows = <<>> THEN <<>> ELSE Head(rows) \o Concat(Tail(rows))

\* What an array holds: the tuple of its elements (of its rows, for a
\* matrix) when they are given, else the value it is filled with.
Elems(a) == IF a.val = "given" THEN a.elems ELSE a.val

\* The elements of a, read column after column.
FlattenColumnMajor(a) ==
  IF a.val = "given" /\ Len(a.shape) = 2
  THEN Concat([j \in 1..a.shape[2] |-> [i \in 1..a.shape[1] |-> a.elems[i][j]]])
  ELSE Elems(a)

\* ndarray.flatten(): the elements of a in row-major order; an array
\* filled with one value reads the same in any order.
Flatten(a) ==
  IF a.val = "given" /\ Len(a.shape) = 2 THEN Concat(a.elems) ELSE Elems(a)

\* run, lines 364-369: the rows appended for the global parameters,
\* np.ascontiguousarray(x)[np.newaxis, :], and for the regional ones,
\* np.ascontiguousarray(x.flatten()).
GlobalRows(b) ==
  [i \in 1..Len(global_param_names(model[b])) |->
     LET a == param_lists[b][global_param_names(model[b])[i]]
     IN Arr(<<1>> \o a.shape, Elems(a))]
RegionalRows(b) ==
  [i \in 1..Len(regional_param_names(model[b])) |->
     LET a == param_lists[b][regional_param_names(model[b])[i]]
     IN Arr(<<Size(a)>>, Flatten(a))]

\* np.vstack: rows of one dimension are stacked as (1, size); all rows
\* must agree in every dimension but the first.
AsRow(a) == IF Len(a.shape) = 1 THEN <<1>> \o a.shape ELSE a.shape
VStackOk(rows) ==
  \A i, j \in 1..Len(rows) : Tail(AsRow(rows[i])) = Tail(AsRow(rows[j]))
RECURSIVE SumHeads(_)
SumHeads(rows) ==
  IF rows = <<>> THEN 0 ELSE Head(AsRow(Head(rows))) + SumHeads(Tail(rows))
VStack(rows) ==
  Stack(<<SumHeads(rows)>> \o Tail(AsRow(rows[1])),
        [i \in 1..Len(rows) |-> rows[i].val])

\* run, lines 364-371: "ok", or the exception packing raises.  A None
\* global parameter becomes a 0-d array that cannot be indexed with
\* [np.newaxis, :]; None has no flatten; vstack refuses rows of unequal
\* length.
PackStatus(b) ==
  IF \E k \in Range(global_param_names(model[b])) : IsNone(param_lists[b][k])
  THEN "IndexError"
  ELSE IF \E k \in Range(regional_param_names(model[b])) :
            IsNone(param_lists[b][k])
  THEN "AttributeError"
  ELSE IF ~VStackOk(GlobalRows(b)) \/ ~VStackOk(RegionalRows(b))
  THEN "ValueError"
  ELSE "ok"

\* self._global_params and self._regional_params after lines 370-371:
\* the first is assigned before the second vstack can raise.
Packed(b) ==
  IF PackStatus(b) \in {"IndexError", "AttributeError"} THEN packed[b]
  ELSE IF ~VStackOk(GlobalRows(b)) THEN packed[b]
  ELSE IF ~VStackOk(RegionalRows(b))
  THEN [packed[b] EXCEPT !.g = VStack(GlobalRows(b))]
  ELSE [g |-> VStack(GlobalRows(b)), r |-> VStack(RegionalRows(b))]

\* The backend's persistent state after a call: it is initialised on
\* first use and re-initialised when force_reinit is passed.
BackendAfter(b, force_reinit, curr_config) ==
  IF force_reinit \/ ~backend.initialized
  THEN [backend EXCEPT !.initialized = TRUE, !.N = N[b],
                       !.cfg = curr_config, !.by = b]
  ELSE backend

\* What the backend call of run receives, with what changed since the
\* most recent run of b whose backend call returned.
CallOf(b, requested, force_reinit, curr_config) ==
  [made |-> TRUE, b |-> b, force_reinit |-> force_reinit,
   requested |-> requested, N |-> N[b], cfg |-> curr_config,
   params |-> param_lists[b], prev_any |-> succ[b].any,
   n_changed |-> (N[b] # succ[b].N),
   changed |-> {f \in DOMAIN attr[b] : attr[b][f] # succ[b].attr[f]},
   model_config |-> model_config(b),
   duration_msec |-> derived[b].duration_msec,
   TR_msec |-> derived[b].TR_msec,
   sc |-> derived[b].sc, sc_dist |-> derived[b].sc_dist]

\* SimGroup._process_out, lines 432-449, for run number k.
BaseProcessOut(b, k) ==
  LET n == N[b]
      o1 == [out[b] EXCEPT !.ext_out = Made(k, n)]
      o2 == IF attr[b].extended_output
            THEN [o1 EXCEPT !._sim_states = Made(k, n),
                            !._global_bools = Made(k, n),
                            !._global_ints = Made(k, n)]
            ELSE o1
  IN [o2 EXCEPT !.sim_bold = Made(k, n), !.sim_fc_trils = Made(k, n),
                !.sim_fcd_trils = Made(k, n)]

\* The naming of the states, lines 649-661 and 801-810: sim_states holds
\* rows of self._sim_states.
NameStates(b, o) ==
  IF attr[b].extended_output
  THEN [o EXCEPT !.sim_states = o._sim_states,
                 !.sim_states_ts = attr[b].extended_output_ts]
  ELSE o

\* A variant of FicProcessOut that leaves param_lists["wIE"] alone.
FicProcessOutNoWriteBack(b, o, pk) ==
  [out |-> o, wIE |-> param_lists[b]["wIE"], status |-> "ok"]

\* rWWSimGroup._process_out, lines 662-668: [out, wIE, status].  The FIC
\* statistics are read from self._global_bools and self._global_ints,
\* which exist only once a run with extended_output has stored them.
FicProcessOut(b, o, pk) ==
  IF ~attr[b].do_fic
  THEN [out |-> o, wIE |-> param_lists[b]["wIE"], status |-> "ok"]
  ELSE IF o._global_bools = Absent
  THEN [out |-> o, wIE |-> param_lists[b]["wIE"], status |-> "AttributeError"]
  ELSE LET o1 == [o EXCEPT !.fic_unstable = o._global_bools,
                           !.fic_failed = o._global_bools,
                           !.fic_ntrials = o._global_ints]
           size == pk.r.shape[2]
       IN IF size % N[b] # 0
          THEN [out |-> o1, wIE |-> param_lists[b]["wIE"],
                status |-> "ValueError"]
          ELSE [out |-> o1, wIE |-> Arr(<<N[b], size \div N[b]>>, "backend"),
                status |-> "ok"]

\* _process_out of the class of b: [out, params, status].
ProcessOut(b, k, pk) ==
  LET o == NameStates(b, BaseProcessOut(b, k))
  IN IF model[b] = "rWW"
     THEN LET f == FicProcessOut(b, o, pk)
          IN [out |-> f.out,
              params |-> [param_lists[b] EXCEPT !["wIE"] = f.wIE],
              status |-> f.status]
     ELSE [out |-> o, params |-> param_lists[b], status |-> "ok"]

\* The snapshot run stores in self.last_config, line 396 (here: none).
SnapshotStale(b, curr_config) == last_config[b]

\* The snapshot run stores in self.last_config, line 396.
Snapshot(b, curr_config) == curr_config

BackendOutcomes == {"ok", "fail_before_init", "fail_after_init"}

\* sim_group.run(force_reinit).  outcome is what the backend call does:
\* it returns, or it raises before or after it has (re)initialised its
\* persistent state.
Run(b, force_reinit, outcome) ==
  LET curr_config == get_config(b, TRUE)
      fr == ForceReinit(b, force_reinit, curr_config)
      pk == Packed(b)
      po == ProcessOut(b, it[b] + 1, pk)
  IN
  /\ it[b] < MaxIt
  /\ Fixed /\ NoEdit
  /\ UNCHANGED <<hasN, N>>
  /\ IF ~hasN[b]
     THEN /\ Returns(b, Ret("run", "AttributeError"))
          /\ NoBackendCall
          /\ UNCHANGED <<param_lists, packed, last_N, last_config, it, out,
                         succ>>
     ELSE IF PackStatus(b) # "ok"
     THEN /\ Returns(b, Ret("run", PackStatus(b)))
          /\ packed' = [packed EXCEPT ![b] = pk]
          /\ NoBackendCall
          /\ UNCHANGED <<param_lists, last_N, last_config, it, out, succ>>
     ELSE /\ packed' = [packed EXCEPT ![b] = pk]
          /\ call' = CallOf(b, force_reinit, fr, curr_config)
          /\ backend' = IF outcome = "fail_before_init" THEN backend
                        ELSE BackendAfter(b, fr, curr_config)
          /\ IF outcome # "ok"
             THEN /\ Returns(b, Ret("run", "BackendError"))
                  /\ UNCHANGED <<param_lists, last_N, last_config, it, out,
                                 succ>>
             ELSE /\ last_N' = [last_N EXCEPT ![b] = N[b]]
                  /\ last_config' =
                       [last_config EXCEPT ![b] = Snapshot(b, curr_config)]
                  /\ it' = [it EXCEPT ![b] = @ + 1]
                  /\ succ' = [succ EXCEPT ![b] =
                                [any |-> TRUE, N |-> N[b], attr |-> attr[b],
                                 count |-> succ[b].count + 1]]
                  /\ out' = [out EXCEPT ![b] = po.out]
                  /\ param_lists' = [param_lists EXCEPT ![b] = po.params]
                  /\ Returns(b, Ret("run", po.status))

\* ---------------------------------------------------------------- clear
\* SimGroup.clear and its overrides: the attributes delattr removes.
ClearedAttrs(m) ==
  {"sim_bold", "sim_fc_trils", "sim_fcd_trils", "sim_states"}
    \cup (IF m = "rWW" THEN {"fic_unstable", "fic_failed", "fic_ntrials"}
          ELSE {})

\* sim_group.clear()
Clear(b) ==
  /\ out' = [out EXCEPT ![b] =
               [f \in DOMAIN out[b] |->
                  IF f \in ClearedAttrs(model[b]) THEN Absent
                  ELSE IF f = "sim_states_ts" THEN FALSE
                  ELSE out[b][f]]]
  /\ Returns(b, Ret("clear", "ok"))
  /\ NoBackendCall /\ Fixed /\ NoEdit
  /\ UNCHANGED <<hasN, N, param_lists, packed, last_N, last_config, it,
                 succ>>

\* ----------------------------------------------------------------- save
\* _get_save_data of the class m: the output attributes it reads.
SavedAttrs(m) ==
  {"sim_bold", "sim_fc_trils", "sim_fcd_trils", "sim_states"}
    \cup (IF m = "rWW" THEN {"fic_unstable", "fic_failed", "fic_ntrials"}
          ELSE {})

\* A variant of ArchiveName that does not use the counter.
ArchiveNameFixed(b) == 0

\* save, line 533: the k of the file name it<k>.npz.
ArchiveName(b) == it[b]

\* save, lines 528-535: "ok" when it returns, or the exception it raises.
SaveStatus(b, save_as) ==
  IF \E f \in SavedAttrs(model[b]) : out[b][f] = Absent
  THEN "AttributeError"
  ELSE IF save_as = "npz" THEN "ok"
  ELSE IF save_as = "txt" THEN "NotImplementedError"
  ELSE "ok"

\* save, lines 531-533: np.savez_compressed is reached.
Writes(b, save_as) == SaveStatus(b, save_as) = "ok" /\ save_as = "npz"

\* sim_group.save(save_as)
Save(b, save_as) ==
  /\ files' =
       IF Writes(b, save_as)
       THEN files \cup {[dir |-> attr[b].out_dir, name |-> ArchiveName(b),
                         by |-> b, after |-> succ[b].count]}
       ELSE files
  /\ Returns(b, [op |-> "save", status |-> SaveStatus(b, save_as),
                 scores |-> <<>>, save_as |-> save_as,
                 wrote |-> Writes(b, save_as)])
  /\ NoBackendCall /\ NoEdit
  /\ UNCHANGED <<model, key_order, derived, hasN, N, param_lists, packed, last_N,
                 last_config, it, out, succ>>

\* ---------------------------------------------------------------- score
BaseTerms == {"+fc_corr", "-fc_diff", "-fcd_ks", "-fc_normec"}

RECURSIVE SumTerms(_, _)
SumTerms(terms, row) ==
  IF terms = {} THEN 0
  ELSE LET t == CHOOSE x \in terms : TRUE
       IN row[t] + SumTerms(terms \ {t}, row)

\* score, lines 494-497, summing the default terms whatever is selected.
GofDefault(terms, row) == SumTerms(DefaultGofTerms, row)

\* score, lines 494-497: "+gof" of one row, the sum over self.gof_terms.
Gof(terms, row) == SumTerms(terms, row)

\* SimGroup.score, lines 478-498: [status, scores].  vals[idx] holds the
\* four terms of simulation idx.  Reading a row of sim_fc_trils fails
\* when the attribute is missing or shorter than N; looking up a selected
\* term that is no column of the table raises KeyError.
BaseScore(b, vals) ==
  IF ~hasN[b] THEN [status |-> "AttributeError", scores |-> <<>>]
  ELSE IF out[b].sim_fc_trils = Absent
  THEN [status |-> "AttributeError", scores |-> <<>>]
  ELSE IF out[b].sim_fc_trils.n < N[b]
  THEN [status |-> "IndexError", scores |-> <<>>]
  ELSE IF ~(attr[b].gof_terms \subseteq BaseTerms)
  THEN [status |-> "KeyError", scores |-> <<>>]
  ELSE [status |-> "ok",
        scores |->
          [idx \in 0..(N[b] - 1) |->
             [c \in BaseTerms \cup {"+gof"} |->
                IF c = "+gof" THEN Gof(attr[b].gof_terms, vals[idx])
                ELSE vals[idx][c]]]]

\* A variant of rWWSimGroup.score that adds the penalty to "+gof".
FicScoreAddsPenalty(b, vals, pen) ==
  LET base == BaseScore(b, vals)
  IN IF base.status # "ok" THEN base
     ELSE [status |-> "ok",
           scores |->
             [idx \in 0..(N[b] - 1) |->
                [c \in DOMAIN base.scores[idx] \cup {"-fic_penalty"} |->
                   IF c = "-fic_penalty" THEN pen[idx]
                   ELSE IF c = "+gof" THEN base.scores[idx][c] + pen[idx]
                   ELSE base.scores[idx][c]]]]

\* rWWSimGroup.score, lines 692-709: [status, scores].  pen[idx] is the
\* penalty computed for simulation idx from its mean r_E; each state
\* array is taken to hold one row per simulation, (N, nodes).
FicScore(b, vals, pen) ==
  LET base == BaseScore(b, vals)
      o == out[b]
  IN IF base.status # "ok" THEN base
     ELSE IF ~(attr[b].do_fic /\ attr[b].fic_penalty) THEN base
     ELSE IF o.sim_states = Absent
     THEN [status |-> "AttributeError", scores |-> <<>>]
     ELSE IF attr[b].extended_output_ts /\ ~o.sim_states_ts
     THEN [status |-> "IndexError", scores |-> <<>>]
     ELSE IF o.sim_states.n < N[b]
     THEN [status |-> "IndexError", scores |-> <<>>]
     ELSE [status |-> "ok",
           scores |->
             [idx \in 0..(N[b] - 1) |->
                [c \in DOMAIN base.scores[idx] \cup {"-fic_penalty"} |->
                   IF c = "-fic_penalty" THEN pen[idx]
                   ELSE base.scores[idx][c]]]]

ScoreOf(b, vals, pen) ==
  IF model[b] = "rWW" THEN FicScore(b, vals, pen) ELSE BaseScore(b, vals)

\* The terms two data sets give for one simulation (integer units):
\* what scipy.stats.pearsonr, the difference of the means, ks_2samp and
\* utils.fc_norm_euclidean return, and the penalty of its mean r_E.
ScoreRows ==
  {[t |-> 1, d |-> -2, k |-> -4, e |-> -8, p |-> -16],
   [t |-> -1, d |-> 0, k |-> -4, e |-> -8, p |-> 0]}

\* The term values the data of batch b can give, one row per simulation.
ScoreInputs(b) == [0..(N[b] - 1) -> ScoreRows]
ValsOf(b, x) ==
  [idx \in 0..(N[b] - 1) |->
     [c \in BaseTerms |->
        CASE c = "+fc_corr" -> x[idx].t
          [] c = "-fc_diff" -> x[idx].d
          [] c = "-fcd_ks" -> x[idx].k
          [] c = "-fc_normec" -> x[idx].e]]
PenOf(b, x) == [idx \in 0..(N[b] - 1) |-> x[idx].p]

\* sim_group.score(emp_fc_tril, emp_fcd_tril)
Score(b, x) ==
  LET r == ScoreOf(b, ValsOf(b, x), PenOf(b, x))
  IN /\ Returns(b, [op |-> "score", status |-> r.status, scores |-> r.scores])
     /\ NoBackendCall /\ Fixed /\ NoEdit
     /\ UNCHANGED <<hasN, N, param_lists, packed, last_N, last_config,
                    it, out, succ>>

\* ----------------------------------------------------------------- Next
Ns == 1..MaxN

Next ==
  \E b \in Batches :
    \/ \E n \in Ns : SetN(b, n)
    \/ \E f \in DOMAIN attr[b] : \E v \in AttrValues(f) : SetAttr(b, f, v)
    \/ \E p \in DOMAIN param_lists[b] : \E a \in UserArrays : SetParam(b, p, a)
    \/ SetDefaultParams(b)
    \/ \E fr \in BOOLEAN : \E o \in BackendOutcomes : Run(b, fr, o)
    \/ Clear(b)
    \/ \E x \in ScoreInputs(b) : Score(b, x)

Spec == Init /\ [][Next]_vars

\* ------------------------------------------------------------ scenarios
\* One batch, driven through reconfiguration and runs: the reinit
\* decision of run.
InitReinit ==
  InitWith([b \in Batches |->
              IF b = "A" THEN CtorArgs(Models, {0}, {TRUE})
              ELSE CtorArgs({"rWWEx"}, {0}, {TRUE})])

NextReinit ==
  \/ \E n \in Ns : SetN("A", n)
  \/ SetDefaultParams("A")
  \/ \E f \in DOMAIN attr["A"] \ {"gof_terms"} :
       \E v \in AttrValues(f) : SetAttr("A", f, v)
  \/ \E g \in {DefaultGofTerms, BaseTerms} : SetAttr("A", "gof_terms", g)
  \/ \E fr \in BOOLEAN : \E o \in {"ok", "fail_before_init"} : Run("A", fr, o)

SpecReinit == InitReinit /\ [][NextReinit]_vars

\* ------------------------------------------------- the reinit decision
\* The settings the specification lists as reinit-relevant.
ListedReinitRelevant(m) ==
  {"duration", "TR", "sc_path", "sc_dist_path", "window_size",
   "window_step", "rand_seed", "bw_params", "do_delay",
   "noise_segment_length"}
    \cup (IF m = "rWW" THEN {"do_fic", "max_fic_trials"} ELSE {})

OutputShaping == {"extended_output", "extended_output_ts", "out_dir", "gof_terms"}

\* A run of a batch that ran before reached the backend.
LaterCall == call.made /\ call.prev_any
\* ... with the same N and without the caller asking for reinit.
QuietCall == LaterCall /\ ~call.requested /\ ~call.n_changed

\* C1: a run passes force_reinit = TRUE to the backend whenever one of
\* the listed reinit-relevant settings differs from its value at the most
\* recent run of the batch whose backend call returned.
C1_ListedChangeIsDirty ==
  (LaterCall /\ call.changed \cap ListedReinitRelevant(model[call.b]) # {})
    => call.force_reinit

\* C2 as stated: a run after which only output-shaping settings differ
\* (extended_output, extended_output_ts, out_dir, gof_terms), with the
\* same N and no request, passes force_reinit = FALSE.
C2_OutputShapingIsClean ==
  (QuietCall /\ call.changed # {} /\ call.changed \subseteq OutputShaping)
    => ~call.force_reinit

\* C2 amended: changing only out_dir or gof_terms, with the same N and no
\* request, passes force_reinit = FALSE; a change of extended_output or
\* extended_output_ts passes force_reinit = TRUE.
C2_OutDirGofTermsAreClean ==
  /\ (QuietCall /\ call.changed # {}
        /\ call.changed \subseteq {"out_dir", "gof_terms"})
       => ~call.force_reinit
  /\ (LaterCall
        /\ call.changed \cap {"extended_output", "extended_output_ts"} # {})
       => call.force_reinit

C2_Witness ==
  /\ QuietCall /\ ~call.force_reinit
  /\ call.changed \in {{"out_dir"}, {"gof_terms"}}

\* C3: a run with the same N and the same recorded (reinit) configuration
\* as the most recent run whose backend call returned, and without a
\* request, passes force_reinit = FALSE, however many runs came before.
C3_SameConfigIsClean ==
  (QuietCall /\ call.changed \cap ConfigKeys(model[call.b], TRUE) = {})
    => ~call.force_reinit

C3_Witness ==
  /\ QuietCall /\ ~call.force_reinit
  /\ call.changed = {}
  /\ edited[call.b] # {}
  /\ it[call.b] >= 2

\* C4: a run passes force_reinit = TRUE whenever the caller requests it
\* and whenever N differs from the N of the most recent run whose backend
\* call returned (0 for a batch that never ran).
C4_RequestOrNewNIsDirty ==
  (call.made /\ (call.requested \/ call.n_changed)) => call.force_reinit

C4_Witness ==
  /\ LaterCall /\ ~call.requested /\ call.n_changed
  /\ call.changed = {}
  /\ call.force_reinit

\* ------------------------------------------------- the shared backend
\* Two batches of one process, constructed with different
\* extended_output, take turns at the backend, whose call may return or
\* raise before or after it has initialised its state.
InitShared ==
  InitWith([b \in Batches |->
              CtorArgs({"rWWEx"}, {0}, {IF b = "A" THEN FALSE ELSE TRUE})])

NextShared ==
  \E b \in Batches :
    \/ \E n \in Ns : SetN(b, n)
    \/ SetDefaultParams(b)
    \/ \E fr \in BOOLEAN : \E o \in BackendOutcomes : Run(b, fr, o)

SpecShared == InitShared /\ [][NextShared]_vars

\* C5: whenever a run passes force_reinit = FALSE, the persistent state
\* of the backend was last initialised by a run with the same N and the
\* same reinit configuration as this run.
C5_NeverStale ==
  (call.made /\ ~call.force_reinit)
    => /\ backend.initialized
       /\ backend.N = call.N
       /\ backend.cfg = call.cfg

\* ------------------------------------------- parameters and outputs
\* One batch that is sized, populated, reconfigured in its output
\* switches, run and cleared.
InitOut ==
  InitWith([b \in Batches |->
              IF b = "A" THEN CtorArgs(Models, {0}, {TRUE})
              ELSE CtorArgs({"rWWEx"}, {0}, {TRUE})])

NextOut ==
  \/ \E n \in Ns : SetN("A", n)
  \/ SetDefaultParams("A")
  \/ \E n \in Ns : SetParam("A", "G", Arr(<<n>>, "user"))
  \/ \E f \in {"extended_output", "extended_output_ts", "do_fic"} :
       \E v \in AttrValues(f) : SetAttr("A", f, v)
  \/ Run("A", FALSE, "ok")
  \/ Clear("A")

SpecOut == InitOut /\ [][NextOut]_vars

\* The shape a declared parameter must have for n simulations.
ExpectedShape(k, n) == IF k \in {"G", "v"} THEN <<n>> ELSE <<n, Nodes>>

\* C6: at every backend call every declared parameter is populated,
\* global parameters and v with shape (N,), regional ones with shape
\* (N, nodes).
C6_CompleteAndShaped ==
  call.made =>
    \A k \in DOMAIN call.params :
      /\ ~IsNone(call.params[k])
      /\ call.params[k].shape = ExpectedShape(k, call.N)

\* The output attributes a batch of class m exposes.
Exposed(m) ==
  {"sim_bold", "sim_fc_trils", "sim_fcd_trils", "sim_states"}
    \cup (IF m = "rWW" THEN {"fic_unstable", "fic_failed", "fic_ntrials"}
          ELSE {})

\* C7: after a run that ended without error every output attribute the
\* batch exposes was produced by that run.
C7_OutputsAreFresh ==
  \A b \in Batches :
    (ret[b].op = "run" /\ ret[b].status = "ok")
      => \A f \in Exposed(model[b]) :
           out[b][f] = Absent \/ out[b][f].run = it[b]

\* The attributes that hold buffers returned by the backend.
BufferAttrs == DOMAIN NoOut \ {"ext_out", "sim_states_ts"}

\* C8: after clear() no attribute of the batch holds a buffer returned by
\* the backend, the raw stacked buffers included.
C8_ClearReleasesAll ==
  \A b \in Batches :
    ret[b].op = "clear" => \A f \in BufferAttrs : out[b][f] = Absent

\* -------------------------------------------------------------- scoring
\* One batch that is sized, populated and run, whose term list and
\* penalty switch are reassigned, and that is scored against data.
InitScore ==
  InitWith([b \in Batches |->
              IF b = "A" THEN CtorArgs(Models, {0}, {TRUE})
              ELSE CtorArgs({"rWWEx"}, {0}, {TRUE})])

\* The term lists the caller assigns: every subset of the four terms of
\* SimGroup.score, and two lists that name the penalty.
GofLists ==
  SUBSET BaseTerms \cup {{"-fic_penalty"}, DefaultGofTerms \cup {"-fic_penalty"}}

NextScore ==
  \/ \E n \in Ns : SetN("A", n)
  \/ SetDefaultParams("A")
  \/ \E g \in GofLists : SetAttr("A", "gof_terms", g)
  \/ \E v \in BOOLEAN : SetAttr("A", "fic_penalty", v)
  \/ Run("A", FALSE, "ok")
  \/ \E x \in ScoreInputs("A") : Score("A", x)

SpecScore == InitScore /\ [][NextScore]_vars

\* score of batch b returned a table.
Scored(b) == ret[b].op = "score" /\ ret[b].status = "ok"

\* The sum of the listed terms of row idx of the returned table, each of
\* the four terms written out.
SignedSum(b, idx) ==
  LET row == ret[b].scores[idx]
      g == attr[b].gof_terms
  IN (IF "+fc_corr" \in g THEN row["+fc_corr"] ELSE 0)
     + (IF "-fc_diff" \in g THEN row["-fc_diff"] ELSE 0)
     + (IF "-fcd_ks" \in g THEN row["-fcd_ks"] ELSE 0)
     + (IF "-fc_normec" \in g THEN row["-fc_normec"] ELSE 0)

\* C9: for every simulation index the "+gof" score returns is the sum of
\* the terms listed in gof_terms, for every subset of the four terms (none
\* of which makes score fail with KeyError); a list the caller never
\* assigned is {+fc_corr, -fc_diff, -fcd_ks}.
C9_GofIsSignedSum ==
  \A b \in Batches :
    /\ Scored(b) =>
         \A idx \in 0..(N[b] - 1) : ret[b].scores[idx]["+gof"] = SignedSum(b, idx)
    /\ (ret[b].op = "score" /\ attr[b].gof_terms \subseteq BaseTerms)
         => ret[b].status # "KeyError"
    /\ "gof_terms" \notin edited[b]
         => attr[b].gof_terms = {"+fc_corr", "-fc_diff", "-fcd_ks"}

C9_Witness ==
  /\ Scored("A") /\ N["A"] = 2
  /\ attr["A"].gof_terms = {"+fc_corr", "-fc_normec"}
  /\ ret["A"].scores[0]["+gof"] = -7
  /\ ret["A"].scores[1]["+gof"] = -9

\* Everything score reads from the outputs of an FIC batch is there.
ScoreReady(b) ==
  /\ hasN[b]
  /\ out[b].sim_fc_trils # Absent /\ out[b].sim_fc_trils.n >= N[b]
  /\ out[b].sim_states # Absent /\ out[b].sim_states.n >= N[b]

\* C10 as stated: in the FIC variant score succeeds whether or not
\* "-fic_penalty" is listed, and "+gof" includes the penalty exactly when
\* it is listed.
C10_PenaltyIffListed ==
  \A b \in Batches :
    (model[b] = "rWW" /\ ret[b].op = "score" /\ ScoreReady(b)
       /\ attr[b].do_fic /\ attr[b].fic_penalty)
      => /\ ret[b].status = "ok"
         /\ \A idx \in 0..(N[b] - 1) :
              ret[b].scores[idx]["+gof"] =
                SignedSum(b, idx)
                  + (IF "-fic_penalty" \in attr[b].gof_terms
                     THEN ret[b].scores[idx]["-fic_penalty"] ELSE 0)

\* C10 amended: in the FIC variant the penalty never contributes to
\* "+gof".  A score that returns a table has no "-fic_penalty" in
\* gof_terms, its "+gof" is the sum of the listed four terms alone, and it
\* has a "-fic_penalty" column exactly when do_fic and fic_penalty are
\* set; a score with "-fic_penalty" listed raises KeyError.
C10_PenaltyNeverInGof ==
  \A b \in Batches :
    (model[b] = "rWW" /\ ret[b].op = "score") =>
      /\ ("-fic_penalty" \in attr[b].gof_terms /\ ScoreReady(b))
           => ret[b].status = "KeyError"
      /\ ret[b].status = "ok" =>
           /\ "-fic_penalty" \notin attr[b].gof_terms
           /\ \A idx \in 0..(N[b] - 1) :
                /\ ret[b].scores[idx]["+gof"] = SignedSum(b, idx)
                /\ "-fic_penalty" \in DOMAIN ret[b].scores[idx]
                     <=> (attr[b].do_fic /\ attr[b].fic_penalty)

C10_Witness ==
  /\ model["A"] = "rWW" /\ Scored("A")
  /\ attr["A"].gof_terms = DefaultGofTerms
  /\ ret["A"].scores[0]["-fic_penalty"] = -16
  /\ ret["A"].scores[0]["+gof"] = -5

\* ------------------------------------------------------ the FIC penalty
\* rWWSimGroup.score, lines 699-708, in binary floating point of reduced
\* precision: rates and deviations are whole numbers of quanta (1 / Quanta
\* Hz, the spacing in [1, 2)), and a result below 1 such as exp(-x) is
\* rounded to the nearest multiple of half a quantum, the spacing in
\* [1/2, 1).
FicTarget == 3
FicBand == 1
\* 1 / 0.05
FicInvRate == 20

\* abs(mean_r_E - 3), in quanta
Deviation(rate) ==
  IF rate >= FicTarget * Quanta THEN rate - FicTarget * Quanta
  ELSE FicTarget * Quanta - rate

\* diff_r_E > 1
OutOfBand(rate) == Deviation(rate) > FicBand * Quanta

\* 1 - np.exp(-0.05 * (diff_r_E - 1)) for an excess of e quanta, in half
\* quanta: exp(-x) = 1 - x + x^2/2 - x^3/6 with x = e / (20 * Quanta),
\* rounded to the nearest half quantum, and subtracted from 1 exactly.
PenaltyTerm(e) ==
  LET den == 6 * FicInvRate * FicInvRate * FicInvRate * Quanta * Quanta
      num == 2 * (6 * FicInvRate * FicInvRate * Quanta * Quanta * e
                   - 3 * FicInvRate * Quanta * e * e
                   + e * e * e)
  IN (2 * num + den) \div (2 * den)

RECURSIVE NanSum(_, _)
\* np.nansum over the nodes 1..n of the terms of the regions out of the
\* band; the regions within it were set to NaN
NanSum(rates, n) ==
  IF n = 0 THEN 0
  ELSE (IF OutOfBand(rates[n])
        THEN PenaltyTerm(Deviation(rates[n]) - FicBand * Quanta) ELSE 0)
       + NanSum(rates, n - 1)

\* A variant of FicPenalty that returns the sum without the minus sign.
FicPenaltyUnsigned(rates, fic_penalty_scale) ==
  IF \E n \in 1..Nodes : OutOfBand(rates[n])
  THEN NanSum(rates, Nodes) * fic_penalty_scale
  ELSE 0

\* scores.loc[idx, "-fic_penalty"] for the mean rates of one simulation,
\* in units of half a quantum divided by the number of nodes
FicPenalty(rates, fic_penalty_scale) ==
  IF \E n \in 1..Nodes : OutOfBand(rates[n])
  THEN -NanSum(rates, Nodes) * fic_penalty_scale
  ELSE 0

\* sim_group.score(emp_fc_tril, emp_fcd_tril, fic_penalty_scale) of an FIC
\* batch whose simulations have the mean rates mean_r_E[idx][node].
ScoreFic(b, x, mean_r_E, fic_penalty_scale) ==
  LET pen == [idx \in 0..(N[b] - 1) |->
                FicPenalty(mean_r_E[idx], fic_penalty_scale)]
      r == FicScore(b, ValsOf(b, x), pen)
  IN /\ model[b] = "rWW"
     /\ Returns(b, [op |-> "score", status |-> r.status, scores |-> r.scores,
                    mean_r_E |-> mean_r_E,
                    fic_penalty_scale |-> fic_penalty_scale])
     /\ NoBackendCall /\ Fixed /\ NoEdit
     /\ UNCHANGED <<hasN, N, param_lists, packed, last_N, last_config,
                    it, out, succ>>

\* The mean rates of a region: on the upper edge of the band, one quantum
\* below its lower edge, and 2 Hz below target.
Rates ==
  {(FicTarget + FicBand) * Quanta, (FicTarget - FicBand) * Quanta - 1,
   (FicTarget - 2 * FicBand) * Quanta}

InitPenalty ==
  InitWith([b \in Batches |->
              IF b = "A" THEN CtorArgs({"rWW"}, {0}, {TRUE})
              ELSE CtorArgs({"rWWEx"}, {0}, {TRUE})])

NextPenalty ==
  \/ \E n \in Ns : SetN("A", n)
  \/ SetDefaultParams("A")
  \/ Run("A", FALSE, "ok")
  \/ \E r \in [0..(N["A"] - 1) -> [1..Nodes -> Rates]] :
       \E sc \in {0, 2} :
         \E row \in ScoreRows :
           /\ row.t = 1
           /\ ScoreFic("A", [idx \in 0..(N["A"] - 1) |-> row], r, sc)

SpecPenalty == InitPenalty /\ [][NextPenalty]_vars

\* score of batch b returned a table with a penalty column.
Penalised(b) ==
  /\ ret[b].op = "score" /\ ret[b].status = "ok"
  /\ "mean_r_E" \in DOMAIN ret[b]
  /\ attr[b].do_fic /\ attr[b].fic_penalty

\* C11 as stated: the penalty of a simulation is 0 when every region is
\* within 1 Hz of the target and strictly negative when some region is
\* farther from it.
C11_ZeroInBandNegativeOutside ==
  \A b \in Batches :
    Penalised(b) =>
      \A idx \in 0..(N[b] - 1) :
        LET rates == ret[b].mean_r_E[idx]
            pen == ret[b].scores[idx]["-fic_penalty"]
        IN IF \A n \in 1..Nodes : Deviation(rates[n]) <= FicBand * Quanta
           THEN pen = 0
           ELSE pen < 0

\* C11 amended: the penalty is 0 when every region is within the band
\* and never positive for a scale that is not negative; it is strictly
\* negative exactly when the scale is positive and some region is out of
\* the band by enough for its term 1 - exp(-0.05 * excess) not to round
\* to 0, which an excess of one quantum does and an excess of 1 Hz does
\* not; regions within the band never change it.
C11_ZeroInBandNeverPositive ==
  \A b \in Batches :
    Penalised(b) =>
      \A idx \in 0..(N[b] - 1) :
        LET rates == ret[b].mean_r_E[idx]
            pen == ret[b].scores[idx]["-fic_penalty"]
            sc == ret[b].fic_penalty_scale
            far == {n \in 1..Nodes :
                      Deviation(rates[n]) >= 2 * FicBand * Quanta}
            near == {n \in 1..Nodes :
                       /\ OutOfBand(rates[n])
                       /\ Deviation(rates[n]) <= FicBand * Quanta + 1}
        IN /\ (\A n \in 1..Nodes : ~OutOfBand(rates[n])) => pen = 0
           /\ sc >= 0 => pen <= 0
           /\ pen < 0 <=> (sc > 0 /\ far # {})
           /\ (far = {} /\ near # {}) => pen = 0
           /\ pen = -sc * Cardinality(far) * PenaltyTerm(FicBand * Quanta)

C11_Witness ==
  /\ Penalised("A") /\ N["A"] = 2
  /\ ret["A"].fic_penalty_scale = 2
  /\ ret["A"].mean_r_E[0][1] = (FicTarget + FicBand) * Quanta
  /\ ret["A"].mean_r_E[0][2] = (FicTarget - 2 * FicBand) * Quanta
  /\ ret["A"].scores[0]["-fic_penalty"] < 0
  /\ ret["A"].mean_r_E[1][1] = (FicTarget + FicBand) * Quanta
  /\ ret["A"].mean_r_E[1][2] = (FicTarget - FicBand) * Quanta - 1
  /\ ret["A"].scores[1]["-fic_penalty"] = 0

\* ------------------------------------------------------------- packing
\* An array of the given shape whose elements all differ: i for a
\* vector, 10 * i + j for a matrix.
Iota(shape) ==
  IF Len(shape) = 1
  THEN Given(shape, [i \in 1..shape[1] |-> i])
  ELSE Given(shape, [i \in 1..shape[1] |-> [j \in 1..shape[2] |-> 10 * i + j]])

Reverse(seq) == [i \in 1..Len(seq) |-> seq[Len(seq) + 1 - i]]

\* One batch whose parameters are defaulted or given element by element
\* with the shape N asks for, whose store is rebuilt in another key order,
\* and that is run.
InitPack ==
  InitWith([b \in Batches |->
              IF b = "A" THEN CtorArgs(Models, {0}, {TRUE})
              ELSE CtorArgs({"rWWEx"}, {0}, {TRUE})])

NextPack ==
  \/ \E n \in Ns : SetN("A", n)
  \/ SetDefaultParams("A")
  \/ \E p \in {"G", regional_param_names(model["A"])[2]} :
       /\ hasN["A"]
       /\ SetParam("A", p, Iota(ExpectedShape(p, N["A"])))
  \/ \E order \in {DeclaredOrder(model["A"]), Reverse(DeclaredOrder(model["A"]))} :
       ReplaceParams("A", order)
  \/ Run("A", FALSE, "ok")

SpecPack == InitPack /\ [][NextPack]_vars

\* The run that just reached the backend had a valid ParameterSet.
ValidCall ==
  /\ call.made
  /\ \A k \in DOMAIN call.params :
       /\ ~IsNone(call.params[k])
       /\ call.params[k].shape = ExpectedShape(k, call.N)

\* Row i of the packed regional array, written out element by element:
\* element k of the row is element ((k-1) div nodes, (k-1) mod nodes) of
\* the parameter.
RowMajorRow(a, n) ==
  [k \in 1..(n * Nodes) |-> a.elems[((k - 1) \div Nodes) + 1][((k - 1) % Nodes) + 1]]

\* C12: for a valid ParameterSet the packed global array has shape
\* (P_g, N) and the packed regional array has shape (P_r, N * nodes); row i
\* holds the i-th declared parameter, a regional row being the row-major
\* flattening of the (N, nodes) array, whatever the order of the keys of
\* the store.
C12_PackedByDeclaredOrder ==
  ValidCall =>
    LET b == call.b
        gn == global_param_names(model[b])
        rn == regional_param_names(model[b])
    IN /\ packed[b].g.shape = <<Len(gn), call.N>>
       /\ packed[b].r.shape = <<Len(rn), call.N * Nodes>>
       /\ Len(packed[b].g.vals) = Len(gn)
       /\ Len(packed[b].r.vals) = Len(rn)
       /\ \A i \in 1..Len(gn) :
            LET a == call.params[gn[i]]
            IN IF a.val = "given" THEN packed[b].g.vals[i] = a.elems
               ELSE packed[b].g.vals[i] = a.val
       /\ \A i \in 1..Len(rn) :
            LET a == call.params[rn[i]]
            IN IF a.val = "given"
               THEN packed[b].r.vals[i] = RowMajorRow(a, call.N)
               ELSE packed[b].r.vals[i] = a.val

C12_Witness ==
  /\ ValidCall /\ call.b = "A" /\ call.N = 2
  /\ key_order["A"] # DeclaredOrder(model["A"])
  /\ call.params[regional_param_names(model["A"])[1]].val = "default"
  /\ call.params[regional_param_names(model["A"])[2]].val = "given"
  /\ packed["A"].r.vals[2] = <<11, 12, 21, 22>>

\* ------------------------------------------------------------- archives
\* One batch that is sized, populated, run (the backend call returning or
\* raising), scored, cleared and saved in the documented formats and in
\* another one.
InitSave ==
  InitWith([b \in Batches |->
              IF b = "A" THEN CtorArgs(Models, {0}, {TRUE})
              ELSE CtorArgs({"rWWEx"}, {0}, {TRUE})])

SaveFormats == {"npz", "txt", "csv"}

NextSave ==
  \/ \E n \in Ns : SetN("A", n)
  \/ SetDefaultParams("A")
  \/ \E o \in {"ok", "fail_after_init"} : Run("A", FALSE, o)
  \/ \E x \in ScoreInputs("A") : Score("A", x)
  \/ Clear("A")
  \/ \E f \in SaveFormats : Save("A", f)

SpecSave == InitSave /\ [][NextSave]_vars

\* C13: the counter of a batch equals the number of its runs whose
\* backend call returned (0 after construction; a failed backend call,
\* score, clear and save leave both alone), every archive the batch wrote
\* is named by the number of such runs before the save, and archives
\* written after different numbers of runs have different names.
C13_CounterNamesArchives ==
  /\ \A b \in Batches : it[b] = succ[b].count
  /\ \A f \in files : f.name = f.after
  /\ \A f, g \in files :
       (f.by = g.by /\ f.dir = g.dir /\ f.after # g.after) => f.name # g.name

C13_Witness ==
  /\ \E f, g \in files : f.by = "A" /\ g.by = "A" /\ f.name = 1 /\ g.name = 2
  /\ ret["A"].op = "save" /\ ret["A"].wrote
  /\ it["A"] = 2

\* C14: a save in a format other than "npz" raises: it never returns
\* normally.
C14_OtherFormatsRaise ==
  \A b \in Batches :
    (ret[b].op = "save" /\ ret[b].save_as # "npz") => ret[b].status # "ok"

\* ------------------------------------------------------ the write-back
\* run of batch b reached the backend and ended without error.
RanOk(b) ==
  /\ call.made /\ call.b = b
  /\ ret[b].op = "run" /\ ret[b].status = "ok"

InitParams ==
  InitWith([b \in Batches |->
              IF b = "A" THEN CtorArgs(Models, {0, 1}, {TRUE})
              ELSE CtorArgs({"rWWEx"}, {0}, {TRUE})])

NextParams ==
  \/ \E n \in Ns : SetN("A", n)
  \/ SetDefaultParams("A")
  \/ \E f \in {"do_fic", "do_delay"} :
       \E v \in AttrValues(f) : SetAttr("A", f, v)
  \/ \E n \in Ns : SetParam("A", "v", Arr(<<n>>, "user"))
  \/ Run("A", FALSE, "ok")

SpecParams == InitParams /\ [][NextParams]_vars

\* A step that assigns N to b (a new value, or the first one).
AssignsN(b) == N'[b] # N[b] \/ hasN'[b] # hasN[b]

\* A step in which b's default-parameter policy was applied.
AppliesDefaults(b) ==
  /\ ret'[b].op = "set_default_params" /\ ret'[b].status = "ok"
  /\ ret'[b] # ret[b] \/ param_lists'[b] # param_lists[b]

\* What the N setter leaves for the switches as they are now: zero
\* velocity without delay, the zero wIE placeholder with FIC.
NAssigned(b) ==
  /\ hasN[b]
  /\ ~attr[b].do_delay => param_lists[b]["v"] = Arr(<<N[b]>>, "zeros")
  /\ model[b] = "rWW" /\ attr[b].do_fic =>
       param_lists[b]["wIE"] = Arr(<<N[b], Nodes>>, "zeros")

\* Every declared parameter of b holds an array of its expected shape:
\* the constant of the variant, except zero velocity without delay and
\* the zero wIE placeholder with FIC.
Populated(b) ==
  \A k \in DOMAIN param_lists[b] :
    param_lists[b][k] =
      Arr(ExpectedShape(k, N[b]),
          IF k = "v" /\ ~attr[b].do_delay THEN "zeros"
          ELSE IF k = "wIE" /\ attr[b].do_fic THEN "zeros"
          ELSE "default")

\* C16: assigning N leaves zero velocity when delay is off and the zero
\* (N, nodes) wIE placeholder when FIC is on; applying the defaults to a
\* batch in that condition leaves every declared parameter populated,
\* (N,) for G and v and (N, nodes) for regional parameters, wIE being the
\* zero placeholder with FIC on and its constant with FIC off.
C16_DefaultsPopulateAll ==
  [][\A b \in Batches :
       /\ AssignsN(b) => NAssigned(b)'
       /\ NAssigned(b) /\ AppliesDefaults(b) => Populated(b)']_vars

\* N assigned and the defaults applied with FIC on: wIE is the zero
\* placeholder, the other parameters hold their constants.
C16_Witness ==
  /\ ret["A"].op = "set_default_params" /\ ret["A"].status = "ok"
  /\ model["A"] = "rWW" /\ attr["A"].do_fic /\ N["A"] = 2
  /\ NAssigned("A") /\ Populated("A")
  /\ param_lists["A"]["wIE"] = Arr(<<2, Nodes>>, "zeros")
  /\ param_lists["A"]["wEE"] = Arr(<<2, Nodes>>, "default")

\* C17: at every backend call made while do_delay is false the velocity
\* array passed has shape (N,) and is all zeros.
C17_ZeroVelocityWithoutDelay ==
  call.made /\ ~attr[call.b].do_delay =>
    call.params["v"] = Arr(<<call.N>>, "zeros")

\* ------------------------------------------------ many nodes (C18)
\* One batch of either variant whose connectome has more nodes than
\* max_nodes_reg or not, built with or without a distance matrix, on an
\* installation where its construction does not raise.
InitSync ==
  InitWithNodes([b \in Batches |->
                   IF b = "A" THEN CtorArgs(Models, {0, 1}, {TRUE})
                   ELSE CtorArgs({"rWWEx"}, {0}, {TRUE})],
                [b \in Batches |-> IF b = "A" THEN BOOLEAN ELSE {FALSE}])

NextSync ==
  \/ \E n \in Ns : SetN("A", n)
  \/ SetDefaultParams("A")
  \/ \E fr \in BOOLEAN : Run("A", fr, "ok")
  \/ Clear("A")

SpecSync == InitSync /\ [][NextSync]_vars

\* C18: a batch built with nodes > max_nodes_reg has sync_msec true after
\* construction, and the 'sync_msec' entry of the configuration record it
\* passes to the backend is '1', with or without a distance matrix.
C18_ManyNodesSyncMsec ==
  \A b \in Batches :
    derived[b].large =>
      /\ ret[b].op = "init" => attr[b].sync_msec
      /\ call.made /\ call.b = b => call.model_config.sync_msec = "1"

\* ------------------------------------------ snapshot and backend (C19)
\* C19: after a run that ended without error, the duration and TR the
\* backend received are int(1000 * duration) and int(1000 * TR) of the
\* configuration the run snapshotted, and the strength and distance
\* arrays it received are the ones loaded from the snapshot's sc_path
\* and sc_dist_path.
C19_SnapshotDescribesCall ==
  \A b \in Batches :
    RanOk(b) =>
      /\ call.duration_msec = Msec(last_config[b].duration)
      /\ call.TR_msec = Msec(last_config[b].TR)
      /\ call.sc = LoadTxt(last_config[b].sc_path)
      /\ call.sc_dist = ScDist(last_config[b].sc_dist_path)
====
